---- MODULE Spec2Model ----
(***************************************************************************)
(* Model of the draft server of src/index.ts: the team directory           *)
(* (`teams`), the per-team DraftState map (`draftStates`) and the          *)
(* socket.io handlers that mutate them.  Every handler runs to completion  *)
(* before the next event is taken (single-threaded event loop), so each    *)
(* handler is one atomic action.  A rejected request (an early return of  *)
(* its handler) is a step that leaves every variable unchanged.            *)
(*                                                                         *)
(* Opaque payloads (team name, createdAt, pokemon, player name) are not    *)
(* tracked.  The DraftState fields playersBanned, currentPickerIndex and   *)
(* pickOrder are written once at creation and never again; they are left   *)
(* out.  A team's members array is modelled as a set: the handlers use it   *)
(* only through includes/indexOf, push, splice and length, and join-team    *)
(* never pushes an id the array already holds.  Messages emitted to         *)
(* clients are not state of the server: what a handler emits is given by   *)
(* the ...Emits operators, evaluated in the state the handler starts in.   *)
(* The read-only handlers (get-player-info, request-draft-state,     *)
(* draft-chat-message) change no server state and are not actions here.    *)
(***************************************************************************)
EXTENDS Integers, Sequences, FiniteSets, TLC

(* ------------------------------ bounds -------------------------------- *)
\* Number of connections ever accepted (socket ids are never reused).
MaxSockets == 3
\* Number of teams ever created (team ids are fresh UUIDs, never reused).
MaxTeams == 1
\* Side size of mode "5v5" (and of any unrecognised mode); 5 in the source,
\* scaled down: the handlers use it only in >= comparisons with list lengths.
PerSide5v5 == 1
\* Side size of mode "10v10"; 10 in the source, scaled down likewise.
PerSide10v10 == 2
\* Member capacity of a "5v5" team (10 in the source), scaled with PerSide5v5.
Capacity5v5 == 2
\* Member capacity of a "10v10" team (20 in the source), scaled likewise.
Capacity10v10 == 4

(* ------------------------- program constants -------------------------- *)
\* Bans each leader makes (the literal 3 of the draft-ban handler).
BansPerLeader == 3
\* Start value of the running maximum in the leader scans.
InitialHighestMMR == -1
\* turnNumber of a fresh DraftState.
FirstTurnNumber == 1

\* null (socket ids start at 1)
NULL == 0
NoRoomCode == "undefined"

Sides == {"blue", "red"}
\* gameMode values clients send.
Modes == {"5v5", "10v10"}
\* mmr values a client sends; 0 (falsy) makes the server draw a random one.
MMRInputs == {-5, 0, 1000, 1999}
\* Values Math.floor(Math.random() * 1000) + 1000 can take (the two ends).
RandomMMRs == {1000, 1999}
RoomCodes == {"rc1", "rc2"}

SocketIds == 1..MaxSockets
TeamIds == 1..MaxTeams
\* Number of teams ever created in the directory-only specification.
MaxDirectoryTeams == 2
DirectoryTeamIds == 1..MaxDirectoryTeams

VARIABLES
    connected,    \* socket ids with an open connection
    nextSocket,   \* id the next connection gets
    teams,        \* the teams array: sequence of [id, mode, members]; members a set
    nextTeam,     \* id the next created team gets
    draftStates   \* the draftStates map: team id -> DraftState

vars == <<connected, nextSocket, teams, nextTeam, draftStates>>

(* ------------------------------ helpers ------------------------------- *)
Includes(list, x) == \E i \in DOMAIN list : list[i] = x

Without(list, x) == SelectSeq(list, LAMBDA y : y # x)

Range(list) == {list[i] : i \in DOMAIN list}

OtherSide(side) == IF side = "blue" THEN "red" ELSE "blue"

\* teams.find(t => t.id === teamId): index of the team, 0 when absent.
FindTeam(teamId) ==
    IF \E i \in DOMAIN teams : teams[i].id = teamId
    THEN CHOOSE i \in DOMAIN teams :
            /\ teams[i].id = teamId
            /\ \A j \in DOMAIN teams : teams[j].id = teamId => i <= j
    ELSE 0

MinPlayersPerTeam(mode) ==
    IF mode = "5v5" THEN PerSide5v5
    ELSE IF mode = "10v10" THEN PerSide10v10 ELSE PerSide5v5

MaxPerSide(mode) ==
    IF mode = "5v5" THEN PerSide5v5
    ELSE IF mode = "10v10" THEN PerSide10v10 ELSE PerSide5v5

TotalCapacity(mode) ==
    IF mode = "5v5" THEN Capacity5v5
    ELSE IF mode = "10v10" THEN Capacity10v10 ELSE Capacity5v5

\* The forEach scan of a side list: the first player with the strictly
\* highest mmr above `best`, starting from `leader`.
RECURSIVE ScanLeader(_, _, _, _, _)
ScanLeader(players, mmrs, i, best, leader) ==
    IF i > Len(players) THEN leader
    ELSE LET p == players[i] IN
         IF p \in DOMAIN mmrs /\ mmrs[p] > best
         THEN ScanLeader(players, mmrs, i + 1, mmrs[p], p)
         ELSE ScanLeader(players, mmrs, i + 1, best, leader)

HighestMMRPlayer(players, mmrs) ==
    ScanLeader(players, mmrs, 1, InitialHighestMMR, NULL)

NewDraftState(mode) ==
    [ picks |-> << >>,
      bans |-> << >>,
      currentTurn |-> "blue",
      turnPhase |-> "waiting",
      turnNumber |-> FirstTurnNumber,
      playerSides |-> << >>,
      bluePlayers |-> << >>,
      redPlayers |-> << >>,
      playersPicked |-> << >>,
      playerMMRs |-> << >>,
      blueLeader |-> NULL,
      redLeader |-> NULL,
      blueBanCount |-> 0,
      redBanCount |-> 0,
      minPlayersPerTeam |-> MinPlayersPerTeam(mode),
      roomCode |-> NoRoomCode ]

\* map.set(key, value)
MapSet(m, k, v) == [x \in DOMAIN m \cup {k} |-> IF x = k THEN v ELSE m[x]]
\* map.delete(key)
MapDelete(m, k) == [x \in DOMAIN m \ {k} |-> m[x]]

(* ------------------------------- Init --------------------------------- *)
Init ==
    /\ connected = {}
    /\ nextSocket = 1
    /\ teams = << >>
    /\ nextTeam = 1
    /\ draftStates = << >>

(* ---------------------------- connection ------------------------------ *)
Connection ==
    /\ nextSocket <= MaxSockets
    /\ connected' = connected \cup {nextSocket}
    /\ nextSocket' = nextSocket + 1
    /\ UNCHANGED <<teams, nextTeam, draftStates>>

(* ---------------------------- create-team ----------------------------- *)
CreateTeam(s, mode) ==
    /\ s \in connected
    /\ nextTeam <= MaxTeams
    /\ teams' = Append(teams, [id |-> nextTeam, mode |-> mode, members |-> {s}])
    /\ draftStates' = MapSet(draftStates, nextTeam, NewDraftState(mode))
    /\ nextTeam' = nextTeam + 1
    /\ UNCHANGED <<connected, nextSocket>>

(* ----------------------------- join-team ------------------------------ *)
\* JoinTeam without the capacity check.
JoinTeam_NoCapacityCheck(s, teamId) ==
    /\ s \in connected
    /\ LET i == FindTeam(teamId) IN
       IF i = 0
       THEN UNCHANGED teams
       ELSE IF s \in teams[i].members
       THEN UNCHANGED teams
       ELSE teams' = [teams EXCEPT ![i].members = @ \cup {s}]
    /\ UNCHANGED <<connected, nextSocket, nextTeam, draftStates>>

JoinTeam(s, teamId) ==
    /\ s \in connected
    /\ LET i == FindTeam(teamId) IN
       IF i = 0
       THEN UNCHANGED teams                        \* not-found
       ELSE IF s \in teams[i].members
       THEN UNCHANGED teams                        \* already-member
       ELSE IF Cardinality(teams[i].members) >= TotalCapacity(teams[i].mode)
       THEN UNCHANGED teams                        \* Room is full
       ELSE teams' = [teams EXCEPT ![i].members = @ \cup {s}]
    /\ UNCHANGED <<connected, nextSocket, nextTeam, draftStates>>

(* ---------------------------- select-side ----------------------------- *)
\* `mmr || random`: a falsy mmr is replaced by the random draw.
PlayerMmr(mmr, rnd) == IF mmr = 0 THEN rnd ELSE mmr

\* updateLeaders: a side's leader is recomputed only when that side is
\* non-empty.
UpdateLeaders(ds) ==
    [ds EXCEPT
        !.blueLeader = IF Len(ds.bluePlayers) > 0
                       THEN HighestMMRPlayer(ds.bluePlayers, ds.playerMMRs)
                       ELSE @,
        !.redLeader  = IF Len(ds.redPlayers) > 0
                       THEN HighestMMRPlayer(ds.redPlayers, ds.playerMMRs)
                       ELSE @]

\* PlaceOnSide without the removal from the previous side.
PlaceOnSide_NoRemoval(ds, s, side, playerMmr) ==
    [ds EXCEPT
       !.bluePlayers = IF side = "blue" THEN Append(@, s) ELSE @,
       !.redPlayers  = IF side = "blue" THEN @ ELSE Append(@, s),
       !.playerSides = MapSet(@, s, side),
       !.playerMMRs  = MapSet(@, s, playerMmr)]

\* Removal from both side lists, insertion at the end of the chosen one,
\* playerSides and playerMMRs updated.
PlaceOnSide(ds, s, side, playerMmr) ==
    LET blue == Without(ds.bluePlayers, s)
        red  == Without(ds.redPlayers, s)
    IN [ds EXCEPT
          !.bluePlayers = IF side = "blue" THEN Append(blue, s) ELSE blue,
          !.redPlayers  = IF side = "blue" THEN red ELSE Append(red, s),
          !.playerSides = MapSet(@, s, side),
          !.playerMMRs  = MapSet(@, s, playerMmr)]

\* HasEnoughPlayers with || in place of &&.
HasEnoughPlayers_EitherSide(ds) ==
    \/ Len(ds.bluePlayers) >= ds.minPlayersPerTeam
    \/ Len(ds.redPlayers) >= ds.minPlayersPerTeam

HasEnoughPlayers(ds) ==
    /\ Len(ds.bluePlayers) >= ds.minPlayersPerTeam
    /\ Len(ds.redPlayers) >= ds.minPlayersPerTeam

\* StartBanPhase without the turnPhase === "waiting" condition.
StartBanPhase_AnyPhase(ds) ==
    IF HasEnoughPlayers(ds)
    THEN [ds EXCEPT !.turnPhase = "ban", !.currentTurn = "blue"]
    ELSE ds

\* The quorum check at the end of select-side.
StartBanPhase(ds) ==
    IF HasEnoughPlayers(ds) /\ ds.turnPhase = "waiting"
    THEN [ds EXCEPT !.turnPhase = "ban", !.currentTurn = "blue"]
    ELSE ds

\* SideIsFull with > in place of >=.
SideIsFull_OffByOne(ds, side, maxPerSide) ==
    \/ side = "blue" /\ Len(ds.bluePlayers) > maxPerSide
    \/ side = "red" /\ Len(ds.redPlayers) > maxPerSide

\* The capacity check: the chosen side already holds maxPerSide players.
SideIsFull(ds, side, maxPerSide) ==
    \/ side = "blue" /\ Len(ds.bluePlayers) >= maxPerSide
    \/ side = "red" /\ Len(ds.redPlayers) >= maxPerSide

\* The DraftState an accepted select-side leaves.
SelectSideAccepted(ds, s, side, playerMmr) ==
    StartBanPhase(UpdateLeaders(PlaceOnSide(ds, s, side, playerMmr)))

SelectSide(s, teamId, side, mmr, rnd) ==
    /\ s \in connected
    /\ IF teamId \notin DOMAIN draftStates \/ FindTeam(teamId) = 0
       THEN UNCHANGED draftStates                  \* no draft state or team
       ELSE IF SideIsFull(draftStates[teamId], side,
                          MaxPerSide(teams[FindTeam(teamId)].mode))
       THEN UNCHANGED draftStates                  \* side-select-failed
       ELSE draftStates' = [draftStates EXCEPT ![teamId] =
                SelectSideAccepted(@, s, side, PlayerMmr(mmr, rnd))]
    /\ UNCHANGED <<connected, nextSocket, teams, nextTeam>>

(* ----------------------------- draft-pick ----------------------------- *)
\* PickAllowed without the playersPicked check.
PickAllowed_NoPickedCheck(ds, s) ==
    /\ ds.turnPhase = "pick"
    /\ s \in DOMAIN ds.playerSides
    /\ ds.playerSides[s] = ds.currentTurn

\* PickAllowed without the turn check.
PickAllowed_NoTurnCheck(ds, s) ==
    /\ ds.turnPhase = "pick"
    /\ s \in DOMAIN ds.playerSides
    /\ ~Includes(ds.playersPicked, s)

\* The checks of draft-pick that precede the mutation.
PickAllowed(ds, s) ==
    /\ ds.turnPhase = "pick"
    /\ s \in DOMAIN ds.playerSides
    /\ ds.playerSides[s] = ds.currentTurn
    /\ ~Includes(ds.playersPicked, s)

\* PickAccepted without the turn advance.
PickAccepted_KeepsTurn(ds, s, draftTeam) ==
    LET picked == Append(ds.playersPicked, s)
        totalPlayers == Len(ds.bluePlayers) + Len(ds.redPlayers)
        draftComplete == Len(picked) >= totalPlayers
    IN [ds EXCEPT
          !.picks = Append(@, [team |-> draftTeam, pickerId |-> s]),
          !.playersPicked = picked,
          !.turnNumber = @ + 1,
          !.turnPhase = IF draftComplete THEN "complete" ELSE "pick"]

\* The DraftState an accepted pick leaves; draftTeam is the side named in
\* the request.
PickAccepted(ds, s, draftTeam) ==
    LET picked == Append(ds.playersPicked, s)
        totalPlayers == Len(ds.bluePlayers) + Len(ds.redPlayers)
        draftComplete == Len(picked) >= totalPlayers
    IN [ds EXCEPT
          !.picks = Append(@, [team |-> draftTeam, pickerId |-> s]),
          !.playersPicked = picked,
          !.turnNumber = @ + 1,
          !.currentTurn = OtherSide(@),
          !.turnPhase = IF draftComplete THEN "complete" ELSE "pick"]

DraftPick(s, teamId, draftTeam) ==
    /\ s \in connected
    /\ IF teamId \notin DOMAIN draftStates
       THEN UNCHANGED draftStates                  \* no draft state
       ELSE IF ~PickAllowed(draftStates[teamId], s)
       THEN UNCHANGED draftStates                  \* draft-action-failed
       ELSE draftStates' = [draftStates EXCEPT ![teamId] =
                PickAccepted(@, s, draftTeam)]
    /\ UNCHANGED <<connected, nextSocket, teams, nextTeam>>

(* ----------------------------- draft-ban ------------------------------ *)
\* isBlueLeader || isRedLeader
IsSideLeader(ds, s, playerSide) ==
    \/ playerSide = "blue" /\ s = ds.blueLeader
    \/ playerSide = "red" /\ s = ds.redLeader

BanCountOf(ds, side) == IF side = "blue" THEN ds.blueBanCount ELSE ds.redBanCount

\* BanAllowed without the leader check.
BanAllowed_NoLeaderCheck(ds, s) ==
    /\ ds.turnPhase = "ban"
    /\ s \in DOMAIN ds.playerSides
    /\ ds.playerSides[s] = ds.currentTurn
    /\ ~(BanCountOf(ds, ds.playerSides[s]) >= BansPerLeader)

\* The checks of draft-ban that precede the mutation.
BanAllowed(ds, s) ==
    /\ ds.turnPhase = "ban"
    /\ s \in DOMAIN ds.playerSides
    /\ ds.playerSides[s] = ds.currentTurn
    /\ IsSideLeader(ds, s, ds.playerSides[s])
    /\ ~(BanCountOf(ds, ds.playerSides[s]) >= BansPerLeader)

\* BanAccepted with allBansComplete computed with || in place of &&.
BanAccepted_EitherSideDone(ds, s, playerSide) ==
    LET blueCount == IF playerSide = "blue" THEN ds.blueBanCount + 1 ELSE ds.blueBanCount
        redCount  == IF playerSide = "blue" THEN ds.redBanCount ELSE ds.redBanCount + 1
        updatedBanCount == IF playerSide = "blue" THEN blueCount ELSE redCount
        turn == IF updatedBanCount >= BansPerLeader
                THEN OtherSide(ds.currentTurn) ELSE ds.currentTurn
        allBansComplete == blueCount >= BansPerLeader \/ redCount >= BansPerLeader
    IN [ds EXCEPT
          !.bans = Append(@, [bannerId |-> s, banningTeam |-> playerSide]),
          !.blueBanCount = blueCount,
          !.redBanCount = redCount,
          !.currentTurn = IF allBansComplete THEN "blue" ELSE turn,
          !.turnPhase = IF allBansComplete THEN "pick" ELSE @]

\* The DraftState an accepted ban by a player of side playerSide leaves.
BanAccepted(ds, s, playerSide) ==
    LET blueCount == IF playerSide = "blue" THEN ds.blueBanCount + 1 ELSE ds.blueBanCount
        redCount  == IF playerSide = "blue" THEN ds.redBanCount ELSE ds.redBanCount + 1
        updatedBanCount == IF playerSide = "blue" THEN blueCount ELSE redCount
        turn == IF updatedBanCount >= BansPerLeader
                THEN OtherSide(ds.currentTurn) ELSE ds.currentTurn
        allBansComplete == blueCount >= BansPerLeader /\ redCount >= BansPerLeader
    IN [ds EXCEPT
          !.bans = Append(@, [bannerId |-> s, banningTeam |-> playerSide]),
          !.blueBanCount = blueCount,
          !.redBanCount = redCount,
          !.currentTurn = IF allBansComplete THEN "blue" ELSE turn,
          !.turnPhase = IF allBansComplete THEN "pick" ELSE @]

DraftBan(s, teamId) ==
    /\ s \in connected
    /\ IF teamId \notin DOMAIN draftStates
       THEN UNCHANGED draftStates                  \* no draft state
       ELSE IF ~BanAllowed(draftStates[teamId], s)
       THEN UNCHANGED draftStates                  \* draft-action-failed
       ELSE draftStates' = [draftStates EXCEPT ![teamId] =
                BanAccepted(@, s, draftStates[teamId].playerSides[s])]
    /\ UNCHANGED <<connected, nextSocket, teams, nextTeam>>

(* --------------------------- set-room-code ---------------------------- *)
\* The checks of set-room-code that precede the mutation.
RoomCodeAllowed(ds, s) ==
    /\ s = ds.blueLeader
    /\ ds.turnPhase = "complete"

SetRoomCode(s, teamId, roomCode) ==
    /\ s \in connected
    /\ IF teamId \notin DOMAIN draftStates
       THEN UNCHANGED draftStates                  \* No draft state found
       ELSE IF ~RoomCodeAllowed(draftStates[teamId], s)
       THEN UNCHANGED draftStates                  \* room-code-failed
       ELSE draftStates' = [draftStates EXCEPT ![teamId].roomCode = roomCode]
    /\ UNCHANGED <<connected, nextSocket, teams, nextTeam>>

(* ----------------------------- disconnect ----------------------------- *)
\* The draft-state cleanup of the disconnect handler for one team the
\* socket is a member of.
CleanupDraftState(ds, s) ==
    LET blue == Without(ds.bluePlayers, s)
        red  == Without(ds.redPlayers, s)
        mmrs == MapDelete(ds.playerMMRs, s)
    IN [ds EXCEPT
          !.bluePlayers = blue,
          !.redPlayers = red,
          !.playerSides = MapDelete(@, s),
          !.playerMMRs = mmrs,
          !.blueLeader = IF s = @
                         THEN (IF Len(blue) > 0 THEN HighestMMRPlayer(blue, mmrs) ELSE NULL)
                         ELSE @,
          !.redLeader  = IF s = @
                         THEN (IF Len(red) > 0 THEN HighestMMRPlayer(red, mmrs) ELSE NULL)
                         ELSE @]

\* Ids of the teams whose members hold s.
TeamsOf(s) == {teams[i].id : i \in {j \in DOMAIN teams : s \in teams[j].members}}

\* Ids of the teams the loop removes: those s was the last member of.
TeamsEmptiedBy(s) ==
    {teams[i].id : i \in {j \in DOMAIN teams : teams[j].members = {s}}}

\* The teams array after the loop.
TeamsAfterDisconnect(s) ==
    LET stripped == [i \in DOMAIN teams |-> [teams[i] EXCEPT !.members = @ \ {s}]]
    IN SelectSeq(stripped, LAMBDA t : t.id \notin TeamsEmptiedBy(s))

\* The loop without draftStates.delete for an emptied team.
DraftStatesAfterDisconnect_NoDelete(s) ==
    [id \in DOMAIN draftStates |->
        IF id \in TeamsOf(s)
        THEN CleanupDraftState(draftStates[id], s)
        ELSE draftStates[id]]

\* The draftStates map after the loop.
DraftStatesAfterDisconnect(s) ==
    [id \in DOMAIN draftStates \ TeamsEmptiedBy(s) |->
        IF id \in TeamsOf(s)
        THEN CleanupDraftState(draftStates[id], s)
        ELSE draftStates[id]]

Disconnect(s) ==
    /\ s \in connected
    /\ connected' = connected \ {s}
    /\ teams' = TeamsAfterDisconnect(s)
    /\ draftStates' = DraftStatesAfterDisconnect(s)
    /\ UNCHANGED <<nextSocket, nextTeam>>

(* ----------------------------- emissions ------------------------------ *)
\* One emitted message: socket.emit (to the caller), io.to(room).emit,
\* io.to("lobby").emit, socket.to("lobby").emit (the lobby but the caller).
Emit(to, room, ev, reason) == [to |-> to, room |-> room, ev |-> ev, reason |-> reason]
ToCaller(ev, reason) == Emit("caller", 0, ev, reason)
ToRoom(teamId, ev) == Emit("room", teamId, ev, "")
ToLobby(ev) == Emit("lobby", 0, ev, "")
ToLobbyOthers(ev) == Emit("lobby-others", 0, ev, "")

ConnectionEmits == {ToCaller("teams-sync", "")}

CreateTeamEmits ==
    {ToLobbyOthers("team-created"), ToLobby("teams-sync"),
     ToCaller("team-created-success", "")}

JoinTeamEmits(s, teamId) ==
    LET i == FindTeam(teamId) IN
    IF i = 0
    THEN {ToCaller("team-join-failed", "not-found")}
    ELSE IF s \in teams[i].members
    THEN {ToCaller("team-join-failed", "already-member")}
    ELSE IF Cardinality(teams[i].members) >= TotalCapacity(teams[i].mode)
    THEN {ToCaller("team-join-failed", "Room is full (both teams are at capacity)")}
    ELSE {ToLobbyOthers("team-updated"), ToLobby("teams-sync"),
          ToCaller("team-join-success", "")}
         \cup (IF teamId \in DOMAIN draftStates
               THEN {ToCaller("draft-state-sync", "")} ELSE {})

SelectSideEmits(s, teamId, side, mmr, rnd) ==
    IF teamId \notin DOMAIN draftStates \/ FindTeam(teamId) = 0
    THEN {}
    ELSE LET ds == draftStates[teamId]
             maxPerSide == MaxPerSide(teams[FindTeam(teamId)].mode)
         IN
         IF side = "blue" /\ Len(ds.bluePlayers) >= maxPerSide
         THEN {ToCaller("side-select-failed", "Blue team is full")}
         ELSE IF side = "red" /\ Len(ds.redPlayers) >= maxPerSide
         THEN {ToCaller("side-select-failed", "Red team is full")}
         ELSE (IF SelectSideAccepted(ds, s, side, PlayerMmr(mmr, rnd)).turnPhase = "ban"
                  /\ ds.turnPhase = "waiting"
               THEN {ToRoom(teamId, "phase-changed")} ELSE {})
              \cup {ToRoom(teamId, "player-side-selected"),
                    ToCaller("side-select-success", "")}

\* DraftPickEmits with the failure reply sent to the whole room.
DraftPickEmits_FailureToRoom(s, teamId) ==
    IF teamId \notin DOMAIN draftStates
    THEN {}
    ELSE IF ~PickAllowed(draftStates[teamId], s)
    THEN {ToRoom(teamId, "draft-action-failed")}
    ELSE {ToRoom(teamId, "draft-pick-made")}

DraftPickEmits(s, teamId) ==
    IF teamId \notin DOMAIN draftStates
    THEN {}
    ELSE LET ds == draftStates[teamId] IN
         IF ds.turnPhase # "pick"
         THEN {ToCaller("draft-action-failed",
                        "We're still in ban phase! Please ban a Pokemon first.")}
         ELSE IF s \notin DOMAIN ds.playerSides
         THEN {ToCaller("draft-action-failed", "You haven't selected a team yet")}
         ELSE IF ds.playerSides[s] # ds.currentTurn
         THEN {ToCaller("draft-action-failed", "It's not your team's turn")}
         ELSE IF Includes(ds.playersPicked, s)
         THEN {ToCaller("draft-action-failed",
                        "You have already picked a Pokemon! Wait for other players.")}
         ELSE {ToRoom(teamId, "draft-pick-made")}

DraftBanEmits(s, teamId) ==
    IF teamId \notin DOMAIN draftStates
    THEN {}
    ELSE LET ds == draftStates[teamId] IN
         IF ds.turnPhase # "ban"
         THEN {ToCaller("draft-action-failed", "Ban phase is over! Please pick a Pokemon.")}
         ELSE IF s \notin DOMAIN ds.playerSides
         THEN {ToCaller("draft-action-failed", "You haven't selected a team yet")}
         ELSE IF ds.playerSides[s] # ds.currentTurn
         THEN {ToCaller("draft-action-failed", "It's not your team's turn")}
         ELSE IF ~IsSideLeader(ds, s, ds.playerSides[s])
         THEN {ToCaller("draft-action-failed", "Only the team leader can ban Pokemon!")}
         ELSE IF BanCountOf(ds, ds.playerSides[s]) >= BansPerLeader
         THEN {ToCaller("draft-action-failed", "You have already banned 3 Pokemon!")}
         ELSE (IF BanAccepted(ds, s, ds.playerSides[s]).turnPhase = "pick"
               THEN {ToRoom(teamId, "phase-changed")} ELSE {})
              \cup {ToRoom(teamId, "draft-ban-made")}

SetRoomCodeEmits(s, teamId) ==
    IF teamId \notin DOMAIN draftStates
    THEN {ToCaller("room-code-failed", "No draft state found")}
    ELSE LET ds == draftStates[teamId] IN
         IF s # ds.blueLeader
         THEN {ToCaller("room-code-failed", "Only blue team leader can set room code")}
         ELSE IF ds.turnPhase # "complete"
         THEN {ToCaller("room-code-failed",
                        "Draft must be complete before setting room code")}
         ELSE {ToRoom(teamId, "room-code-set")}

DisconnectEmits(s) ==
    {ToRoom(id, "player-disconnected") :
        id \in {t \in TeamsOf(s) \cap DOMAIN draftStates :
                  \/ Includes(draftStates[t].bluePlayers, s)
                  \/ Includes(draftStates[t].redPlayers, s)}}
    \cup (IF TeamsOf(s) # {} THEN {ToLobby("teams-sync")} ELSE {})

(* ------------------------------- Next --------------------------------- *)
Next ==
    \/ Connection
    \/ \E s \in SocketIds, mode \in Modes : CreateTeam(s, mode)
    \/ \E s \in SocketIds, teamId \in TeamIds : JoinTeam(s, teamId)
    \/ \E s \in SocketIds, teamId \in TeamIds, side \in Sides,
          mmr \in MMRInputs, rnd \in RandomMMRs :
            SelectSide(s, teamId, side, mmr, rnd)
    \/ \E s \in SocketIds, teamId \in TeamIds, draftTeam \in Sides :
            DraftPick(s, teamId, draftTeam)
    \/ \E s \in SocketIds, teamId \in TeamIds : DraftBan(s, teamId)
    \/ \E s \in SocketIds, teamId \in TeamIds, roomCode \in RoomCodes :
            SetRoomCode(s, teamId, roomCode)
    \/ \E s \in SocketIds : Disconnect(s)

Spec == Init /\ [][Next]_vars

(* ------------------------- fair specification ------------------------- *)
\* Some draft has left the waiting phase.
DraftStarted == \E t \in DOMAIN draftStates : draftStates[t].turnPhase # "waiting"

\* A disconnect while no draft has started (the runs in which no session
\* disconnects once the phase is ban).
DisconnectBeforeDraft(s) ==
    /\ ~DraftStarted
    /\ Disconnect(s)

NextLive ==
    \/ Connection
    \/ \E s \in SocketIds, mode \in Modes : CreateTeam(s, mode)
    \/ \E s \in SocketIds, teamId \in TeamIds : JoinTeam(s, teamId)
    \/ \E s \in SocketIds, teamId \in TeamIds, side \in Sides,
          mmr \in MMRInputs, rnd \in RandomMMRs :
            SelectSide(s, teamId, side, mmr, rnd)
    \/ \E s \in SocketIds, teamId \in TeamIds, draftTeam \in Sides :
            DraftPick(s, teamId, draftTeam)
    \/ \E s \in SocketIds, teamId \in TeamIds : DraftBan(s, teamId)
    \/ \E s \in SocketIds, teamId \in TeamIds, roomCode \in RoomCodes :
            SetRoomCode(s, teamId, roomCode)
    \/ \E s \in SocketIds : DisconnectBeforeDraft(s)

\* Every connected client keeps emitting the draft-ban and draft-pick
\* events the server would accept.
BanFairness == WF_vars(\E s \in SocketIds, teamId \in TeamIds : DraftBan(s, teamId))
PickFairness ==
    WF_vars(\E s \in SocketIds, teamId \in TeamIds, draftTeam \in Sides :
                DraftPick(s, teamId, draftTeam))

SpecLive == Init /\ [][NextLive]_vars /\ BanFairness /\ PickFairness

(* ----------------------- directory specification ---------------------- *)
\* The team directory alone (connection, create-team, join-team,
\* select-side, disconnect) with room for two teams.
DirectoryCreateTeam(s, mode) ==
    /\ s \in connected
    /\ nextTeam <= MaxDirectoryTeams
    /\ teams' = Append(teams, [id |-> nextTeam, mode |-> mode, members |-> {s}])
    /\ draftStates' = MapSet(draftStates, nextTeam, NewDraftState(mode))
    /\ nextTeam' = nextTeam + 1
    /\ UNCHANGED <<connected, nextSocket>>

NextDirectory ==
    \/ Connection
    \/ \E s \in SocketIds, mode \in Modes : DirectoryCreateTeam(s, mode)
    \/ \E s \in SocketIds, teamId \in DirectoryTeamIds : JoinTeam(s, teamId)
    \/ \E s \in SocketIds : Disconnect(s)

SpecDirectory == Init /\ [][NextDirectory]_vars

(* ====================================================================== *)
(*                               Properties                               *)
(* ====================================================================== *)
PhaseRank(phase) ==
    CASE phase = "waiting" -> 0
      [] phase = "ban" -> 1
      [] phase = "pick" -> 2
      [] phase = "complete" -> 3

\* Teams whose DraftState exists before and after the step.
Surviving == DOMAIN draftStates \cap DOMAIN draftStates'

SidePlayers(ds, side) == IF side = "blue" THEN ds.bluePlayers ELSE ds.redPlayers
LeaderOf(ds, side) == IF side = "blue" THEN ds.blueLeader ELSE ds.redLeader
TotalPlayers(ds) == Len(ds.bluePlayers) + Len(ds.redPlayers)
NoDuplicates(list) == \A i, j \in DOMAIN list : list[i] = list[j] => i = j

\* C1: in every step, a team's turnPhase keeps or raises its rank under
\* waiting < ban < pick < complete.
C1_PhaseNeverRegresses ==
    [][\A t \in Surviving :
          PhaseRank(draftStates'[t].turnPhase) >= PhaseRank(draftStates[t].turnPhase)]_vars

\* A draft that went through every phase, with a connection closed since.
C1_Witness ==
    \E t \in DOMAIN draftStates :
        /\ draftStates[t].turnPhase = "complete"
        /\ Cardinality(connected) < nextSocket - 1

\* The member of a side list with the maximum mmr, the earliest on ties;
\* NULL for an empty list.
MaxMMRMember(players, mmrs) ==
    IF Len(players) = 0 THEN NULL
    ELSE players[CHOOSE i \in DOMAIN players :
                    /\ \A j \in DOMAIN players : mmrs[players[j]] <= mmrs[players[i]]
                    /\ \A j \in DOMAIN players : j < i => mmrs[players[j]] < mmrs[players[i]]]

\* C2: each side's leader is the member of that side with the maximum mmr
\* (earliest on ties), and is null exactly when the side is empty.
C2_LeaderIsMaxMMRMember ==
    \A t \in DOMAIN draftStates : \A side \in Sides :
        LET ds == draftStates[t] IN
        /\ LeaderOf(ds, side) = MaxMMRMember(SidePlayers(ds, side), ds.playerMMRs)
        /\ (LeaderOf(ds, side) = NULL <=> Len(SidePlayers(ds, side)) = 0)

\* C3: a step that changes bans or a ban count appends one entry for the
\* side whose turn it is, made in the ban phase by the leader of that side,
\* who is recorded on that side and has made fewer than 3 bans so far.
C3_BanStep(ds, new) ==
    (new.bans # ds.bans \/ new.blueBanCount # ds.blueBanCount
                        \/ new.redBanCount # ds.redBanCount)
    => /\ Len(new.bans) = Len(ds.bans) + 1
       /\ SubSeq(new.bans, 1, Len(ds.bans)) = ds.bans
       /\ LET b == new.bans[Len(new.bans)] IN
          /\ ds.turnPhase = "ban"
          /\ b.bannerId \in DOMAIN ds.playerSides
          /\ ds.playerSides[b.bannerId] = ds.currentTurn
          /\ b.banningTeam = ds.currentTurn
          /\ b.bannerId = LeaderOf(ds, ds.currentTurn)
          /\ BanCountOf(ds, ds.currentTurn) < 3
          /\ BanCountOf(new, ds.currentTurn) = BanCountOf(ds, ds.currentTurn) + 1
          /\ BanCountOf(new, OtherSide(ds.currentTurn)) =
                BanCountOf(ds, OtherSide(ds.currentTurn))

C3_BanOnlyByTurnLeader ==
    [][\A t \in Surviving : C3_BanStep(draftStates[t], draftStates'[t])]_vars

\* All six bans made, by two different sessions.
C3_Witness ==
    \E t \in DOMAIN draftStates :
        /\ Len(draftStates[t].bans) = 6
        /\ draftStates[t].bans[1].bannerId # draftStates[t].bans[6].bannerId

\* C4: no ban count exceeds 3; the phase is past ban exactly when both
\* counts are 3, and it moves from ban to pick in the step that makes both 3.
C4_Counts(ds) ==
    /\ ds.blueBanCount \in 0..3
    /\ ds.redBanCount \in 0..3
    /\ (ds.turnPhase \in {"pick", "complete"}
            <=> (ds.blueBanCount = 3 /\ ds.redBanCount = 3))

C4_PickStep(ds, new) ==
    /\ (ds.turnPhase = "ban" /\ new.blueBanCount = 3 /\ new.redBanCount = 3)
            => new.turnPhase = "pick"
    /\ (new.turnPhase = "pick" /\ ds.turnPhase # "pick")
            => (ds.turnPhase = "ban" /\ new.blueBanCount = 3 /\ new.redBanCount = 3
                /\ ~(ds.blueBanCount = 3 /\ ds.redBanCount = 3))

C4_BanCountsAndPickPhase ==
    /\ [](\A t \in DOMAIN draftStates : C4_Counts(draftStates[t]))
    /\ [][\A t \in Surviving : C4_PickStep(draftStates[t], draftStates'[t])]_vars

\* The pick phase has just begun.
C4_Witness ==
    \E t \in DOMAIN draftStates :
        /\ draftStates[t].turnPhase = "pick"
        /\ draftStates[t].blueBanCount = 3
        /\ draftStates[t].redBanCount = 3
        /\ Len(draftStates[t].picks) = 0

\* C5: currentTurn changes exactly in an accepted ban that brings the
\* turning side's count to 3 and in every accepted pick; a pick adds 1 to
\* turnNumber and nothing else changes turnNumber; all blue bans precede all
\* red bans; the pick phase starts with currentTurn = blue.
C5_TurnStep(ds, new) ==
    LET banned == Len(new.bans) = Len(ds.bans) + 1
        picked == Len(new.picks) = Len(ds.picks) + 1
    IN /\ (new.currentTurn # ds.currentTurn)
            <=> \/ banned /\ ds.turnPhase = "ban"
                          /\ BanCountOf(new, ds.currentTurn) = 3
                \/ picked /\ ds.turnPhase = "pick"
       /\ (new.currentTurn # ds.currentTurn) => new.currentTurn = OtherSide(ds.currentTurn)
       /\ new.turnNumber = (IF picked THEN ds.turnNumber + 1 ELSE ds.turnNumber)
       /\ (ds.turnPhase = "ban" /\ new.turnPhase = "pick") => new.currentTurn = "blue"

C5_BansInOrder(ds) ==
    \A i, j \in DOMAIN ds.bans :
        (i < j /\ ds.bans[i].banningTeam = "red") => ds.bans[j].banningTeam = "red"

C5_TurnSwitches ==
    /\ [](\A t \in DOMAIN draftStates : C5_BansInOrder(draftStates[t]))
    /\ [][\A t \in Surviving : C5_TurnStep(draftStates[t], draftStates'[t])]_vars

\* Both leaders have banned and two picks were made in alternation.
C5_Witness ==
    \E t \in DOMAIN draftStates :
        /\ Len(draftStates[t].bans) = 6
        /\ Len(draftStates[t].picks) = 2
        /\ draftStates[t].turnNumber = 3
        /\ draftStates[t].currentTurn = "blue"

\* C6: picks changes only by one entry appended in the pick phase by a
\* session recorded on the turning side and not in playersPicked; no session
\* is the picker of two entries; a draft-pick request of a session already in
\* playersPicked changes nothing.
C6_PickStep(ds, new) ==
    (new.picks # ds.picks \/ new.playersPicked # ds.playersPicked)
    => /\ Len(new.picks) = Len(ds.picks) + 1
       /\ SubSeq(new.picks, 1, Len(ds.picks)) = ds.picks
       /\ LET p == new.picks[Len(new.picks)].pickerId IN
          /\ ds.turnPhase = "pick"
          /\ p \in DOMAIN ds.playerSides
          /\ ds.playerSides[p] = ds.currentTurn
          /\ ~Includes(ds.playersPicked, p)
          /\ new.playersPicked = Append(ds.playersPicked, p)

C6_OnePickEach(ds) ==
    /\ \A i, j \in DOMAIN ds.picks : ds.picks[i].pickerId = ds.picks[j].pickerId => i = j
    /\ ds.playersPicked = [i \in DOMAIN ds.picks |-> ds.picks[i].pickerId]

C6_RepeatedPickRejected ==
    \A s \in SocketIds, t \in DOMAIN draftStates, draftTeam \in Sides :
        (DraftPick(s, t, draftTeam) /\ Includes(draftStates[t].playersPicked, s))
            => UNCHANGED draftStates

C6_PickOncePerSession ==
    /\ [](\A t \in DOMAIN draftStates : C6_OnePickEach(draftStates[t]))
    /\ [][/\ \A t \in Surviving : C6_PickStep(draftStates[t], draftStates'[t])
          /\ C6_RepeatedPickRejected]_vars

\* In the pick phase a connected session that has picked is again on the
\* turning side: only the playersPicked check stands between it and a
\* second pick.
C6_Witness ==
    \E t \in DOMAIN draftStates : \E s \in connected :
        LET ds == draftStates[t] IN
        /\ ds.turnPhase = "pick"
        /\ s \in DOMAIN ds.playerSides
        /\ ds.playerSides[s] = ds.currentTurn
        /\ Includes(ds.playersPicked, s)

\* C7: playersPicked never shrinks and is never longer than the two side
\* lists together; in the pick phase it is shorter, and the phase is
\* complete exactly when the lengths are equal.
C7_Sizes(ds) ==
    /\ Len(ds.playersPicked) <= TotalPlayers(ds)
    /\ ds.turnPhase = "pick" => Len(ds.playersPicked) # TotalPlayers(ds)
    /\ ds.turnPhase = "complete" => Len(ds.playersPicked) = TotalPlayers(ds)

C7_PickedBoundedBySides ==
    /\ [](\A t \in DOMAIN draftStates : C7_Sizes(draftStates[t]))
    /\ [][\A t \in Surviving :
            Len(draftStates'[t].playersPicked) >= Len(draftStates[t].playersPicked)]_vars

\* C8: in the step that makes the phase complete, every session on a side
\* list has exactly one entry in picks.
C8_CompleteStep(ds, new) ==
    (new.turnPhase = "complete" /\ ds.turnPhase # "complete")
    => \A s \in Range(new.bluePlayers) \cup Range(new.redPlayers) :
          Cardinality({i \in DOMAIN new.picks : new.picks[i].pickerId = s}) = 1

C8_CompleteMeansAllPicked ==
    [][\A t \in Surviving : C8_CompleteStep(draftStates[t], draftStates'[t])]_vars

\* C9: in the waiting phase some side is below minPlayersPerTeam; the step
\* out of waiting is the one after which both sides have minPlayersPerTeam
\* players, and it sets turnPhase = ban and currentTurn = blue.
C9_Quorum(ds) ==
    /\ Len(ds.bluePlayers) >= ds.minPlayersPerTeam
    /\ Len(ds.redPlayers) >= ds.minPlayersPerTeam

C9_QuorumStep(ds, new) ==
    /\ (ds.turnPhase = "waiting" /\ C9_Quorum(new))
            => (new.turnPhase = "ban" /\ new.currentTurn = "blue")
    /\ (ds.turnPhase = "waiting" /\ new.turnPhase # "waiting")
            => (C9_Quorum(new) /\ new.turnPhase = "ban" /\ new.currentTurn = "blue")

C9_WaitingUntilQuorum ==
    /\ [](\A t \in DOMAIN draftStates :
            draftStates[t].turnPhase = "waiting" => ~C9_Quorum(draftStates[t]))
    /\ [][\A t \in Surviving : C9_QuorumStep(draftStates[t], draftStates'[t])]_vars

\* The ban phase has just begun: both sides at quorum, nothing banned yet.
C9_Witness ==
    \E t \in DOMAIN draftStates :
        /\ draftStates[t].turnPhase = "ban"
        /\ Len(draftStates[t].bans) = 0
        /\ C9_Quorum(draftStates[t])
        /\ draftStates[t].currentTurn = "blue"

\* C10: the two side lists are duplicate-free and disjoint, and playerSides
\* maps a session to a side exactly when that side's list holds it.
C10_SidesConsistent ==
    \A t \in DOMAIN draftStates :
        LET ds == draftStates[t] IN
        /\ NoDuplicates(ds.bluePlayers)
        /\ NoDuplicates(ds.redPlayers)
        /\ Range(ds.bluePlayers) \cap Range(ds.redPlayers) = {}
        /\ \A s \in SocketIds : \A side \in Sides :
              (s \in DOMAIN ds.playerSides /\ ds.playerSides[s] = side)
                  <=> s \in Range(SidePlayers(ds, side))

\* Three sessions on the side lists, the later connection ahead of the
\* earlier one on red, and a connection closed since.
C10_Witness ==
    \E t \in DOMAIN draftStates :
        LET ds == draftStates[t] IN
        /\ Len(ds.bluePlayers) = 1
        /\ Len(ds.redPlayers) = 2
        /\ ds.redPlayers[1] > ds.redPlayers[2]
        /\ Cardinality(connected) < nextSocket - 1

\* C11: no side list is longer than minPlayersPerTeam, and a select-side
\* request for a side that already holds minPlayersPerTeam players changes
\* nothing, also when the requester is one of those players.
C11_SideWithinQuorum(ds) ==
    /\ Len(ds.bluePlayers) <= ds.minPlayersPerTeam
    /\ Len(ds.redPlayers) <= ds.minPlayersPerTeam

C11_FullSideRejected ==
    \/ UNCHANGED draftStates
    \/ \A t \in DOMAIN draftStates, side \in Sides :
          Len(SidePlayers(draftStates[t], side)) >= draftStates[t].minPlayersPerTeam
            => \A s \in SocketIds, mmr \in MMRInputs, rnd \in RandomMMRs :
                  ~SelectSide(s, t, side, mmr, rnd)

C11_SideCapacity ==
    /\ [](\A t \in DOMAIN draftStates : C11_SideWithinQuorum(draftStates[t]))
    /\ [][C11_FullSideRejected]_vars

\* A connected session sits on a full two-player side behind another
\* player: its own request for that side meets the capacity check.
C11_Witness ==
    \E t \in DOMAIN draftStates : \E s \in connected :
        LET ds == draftStates[t] IN
        /\ ds.minPlayersPerTeam = 2
        /\ Len(ds.redPlayers) = 2
        /\ ds.redPlayers[2] = s

\* Events that tell the caller its request failed.
FailureEvents ==
    {"team-join-failed", "side-select-failed", "draft-action-failed", "room-code-failed"}

\* Nothing is emitted but at most one failure reply to the caller.
OnlyFailureReply(emits) ==
    /\ Cardinality(emits) <= 1
    /\ \A e \in emits : e.to = "caller" /\ e.ev \in FailureEvents

JoinTeamRejected(s, teamId) ==
    LET i == FindTeam(teamId) IN
    \/ i = 0
    \/ i # 0 /\ s \in teams[i].members
    \/ i # 0 /\ Cardinality(teams[i].members) >= TotalCapacity(teams[i].mode)

SelectSideRejected(teamId, side) ==
    \/ teamId \notin DOMAIN draftStates
    \/ FindTeam(teamId) = 0
    \/ Len(SidePlayers(draftStates[teamId], side)) >=
            MaxPerSide(teams[FindTeam(teamId)].mode)

DraftPickRejected(s, teamId) ==
    teamId \in DOMAIN draftStates => ~PickAllowed(draftStates[teamId], s)

DraftBanRejected(s, teamId) ==
    teamId \in DOMAIN draftStates => ~BanAllowed(draftStates[teamId], s)

SetRoomCodeRejected(s, teamId) ==
    teamId \in DOMAIN draftStates => ~RoomCodeAllowed(draftStates[teamId], s)

\* C12 (replies): a request that fails a check emits at most a failure
\* reply to the caller, nothing to the team room or the lobby.
C12_RejectedReplies ==
    \A s \in connected, teamId \in TeamIds :
        /\ JoinTeamRejected(s, teamId) => OnlyFailureReply(JoinTeamEmits(s, teamId))
        /\ DraftPickRejected(s, teamId) => OnlyFailureReply(DraftPickEmits(s, teamId))
        /\ DraftBanRejected(s, teamId) => OnlyFailureReply(DraftBanEmits(s, teamId))
        /\ SetRoomCodeRejected(s, teamId) => OnlyFailureReply(SetRoomCodeEmits(s, teamId))
        /\ \A side \in Sides, mmr \in MMRInputs, rnd \in RandomMMRs :
              SelectSideRejected(teamId, side)
                  => OnlyFailureReply(SelectSideEmits(s, teamId, side, mmr, rnd))

\* C12 (state): a step of a handler whose request fails a check changes
\* neither teams nor draftStates.
C12_RejectedChangesNothing ==
    \/ UNCHANGED <<teams, draftStates>>
    \/ \A s \in connected, teamId \in TeamIds :
        /\ JoinTeamRejected(s, teamId) => ~JoinTeam(s, teamId)
        /\ DraftPickRejected(s, teamId)
              => \A draftTeam \in Sides : ~DraftPick(s, teamId, draftTeam)
        /\ DraftBanRejected(s, teamId) => ~DraftBan(s, teamId)
        /\ SetRoomCodeRejected(s, teamId)
              => \A roomCode \in RoomCodes : ~SetRoomCode(s, teamId, roomCode)
        /\ \A side \in Sides :
              SelectSideRejected(teamId, side)
                  => \A mmr \in MMRInputs, rnd \in RandomMMRs :
                        ~SelectSide(s, teamId, side, mmr, rnd)

\* C12: rejected operations change no Team and no DraftState and emit
\* nothing except a failure reply to the calling connection.
C12_RejectionsAreLocal ==
    /\ []C12_RejectedReplies
    /\ [][C12_RejectedChangesNothing]_vars

\* In the pick phase a session of the waiting side, a session that has
\* picked, and a side that is full: a pick, a ban, a room code and a side
\* selection all have a rejecting check to meet.
C12_Witness ==
    \E t \in DOMAIN draftStates : \E s \in connected :
        LET ds == draftStates[t] IN
        /\ ds.turnPhase = "pick"
        /\ Len(ds.playersPicked) > 0
        /\ s \in DOMAIN ds.playerSides
        /\ ds.playerSides[s] # ds.currentTurn
        /\ s # ds.blueLeader
        /\ s \in teams[FindTeam(t)].members
        /\ Len(ds.bluePlayers) >= MaxPerSide(teams[FindTeam(t)].mode)

\* C13: roomCode is unset outside the complete phase, and a set-room-code
\* step that writes it is made in the complete phase by a session that is
\* on the blue side list and is its maximum-mmr member.
C13_RoomCodeWrite ==
    \/ UNCHANGED draftStates
    \/ \A s \in connected, t \in DOMAIN draftStates, roomCode \in RoomCodes :
          SetRoomCode(s, t, roomCode)
            => /\ draftStates[t].turnPhase = "complete"
               /\ Includes(draftStates[t].bluePlayers, s)
               /\ s = MaxMMRMember(draftStates[t].bluePlayers, draftStates[t].playerMMRs)
               /\ draftStates'[t].roomCode = roomCode

C13_RoomCodeOnlyByBlueLeader ==
    /\ [](\A t \in DOMAIN draftStates :
            draftStates[t].turnPhase # "complete" => draftStates[t].roomCode = NoRoomCode)
    /\ [][C13_RoomCodeWrite]_vars

\* C14 (replies): join-team answers not-found for an unknown team,
\* already-member for a member, and the room-full failure for a non-member
\* of a team at capacity; no members set is larger than the capacity.
C14_JoinReplies ==
    /\ \A i \in DOMAIN teams :
          Cardinality(teams[i].members) <= TotalCapacity(teams[i].mode)
    /\ \A s \in connected, teamId \in TeamIds :
          LET i == FindTeam(teamId) IN
          /\ i = 0 => JoinTeamEmits(s, teamId) =
                        {ToCaller("team-join-failed", "not-found")}
          /\ (i # 0 /\ s \in teams[i].members)
                => JoinTeamEmits(s, teamId) =
                        {ToCaller("team-join-failed", "already-member")}
          /\ (i # 0 /\ s \notin teams[i].members
                    /\ Cardinality(teams[i].members) >= TotalCapacity(teams[i].mode))
                => JoinTeamEmits(s, teamId) =
                        {ToCaller("team-join-failed",
                                  "Room is full (both teams are at capacity)")}

\* C14 (state): a join-team step changes teams only by adding the caller
\* to a team it was not a member of and that was below capacity; a failing
\* join-team leaves teams as it was.
C14_JoinStep ==
    \/ UNCHANGED teams
    \/ \A s \in connected, teamId \in TeamIds :
          JoinTeam(s, teamId)
            => LET i == FindTeam(teamId) IN
               /\ i # 0
               /\ s \notin teams[i].members
               /\ Cardinality(teams[i].members) < TotalCapacity(teams[i].mode)
               /\ teams' = [teams EXCEPT ![i].members = @ \cup {s}]

C14_JoinTeamFailures ==
    /\ []C14_JoinReplies
    /\ [][C14_JoinStep]_vars

\* A team at capacity, one member still connected (a second join-team of
\* it meets already-member) and a connected non-member (its join-team
\* meets the capacity check).
C14_Witness ==
    \E i \in DOMAIN teams :
        /\ Cardinality(teams[i].members) = TotalCapacity(teams[i].mode)
        /\ connected \cap teams[i].members # {}
        /\ connected \ teams[i].members # {}

\* C15: every team of the directory has at least one member, and the team
\* ids that have a DraftState are exactly the ids of the teams in the
\* directory.
C15_DirectoryConsistent ==
    /\ \A i \in DOMAIN teams : teams[i].members # {}
    /\ DOMAIN draftStates = {teams[i].id : i \in DOMAIN teams}

\* A team was created and the disconnect of its last member removed it.
C15_Witness ==
    /\ nextTeam > 1
    /\ Len(teams) = 0
    /\ DOMAIN draftStates = {}
    /\ connected # {}

\* C16: each session is in the members of at most one team.
C16_AtMostOneTeam ==
    \A s \in SocketIds :
        Cardinality({i \in DOMAIN teams : s \in teams[i].members}) <= 1

\* C17 (one team): after the disconnect of s, a member of the team, s is
\* off members, both side lists and playerSides; a side that s led is led
\* by the maximum-mmr member of what remains of that side (null if nothing
\* remains); if s led neither side both leaders are as before.
C17_Departed(s, i, ds, new) ==
    /\ \A k \in DOMAIN teams' : teams'[k].id = teams[i].id => s \notin teams'[k].members
    /\ ~Includes(new.bluePlayers, s)
    /\ ~Includes(new.redPlayers, s)
    /\ s \notin DOMAIN new.playerSides
    /\ \A side \in Sides :
          LeaderOf(ds, side) = s
            => LeaderOf(new, side) = MaxMMRMember(SidePlayers(new, side), new.playerMMRs)
    /\ (\A side \in Sides : LeaderOf(ds, side) # s)
            => \A side \in Sides : LeaderOf(new, side) = LeaderOf(ds, side)

C17_DepartureStep ==
    \/ connected' = connected
    \/ \A s \in connected :
          Disconnect(s)
            => \A i \in DOMAIN teams :
                  (s \in teams[i].members /\ teams[i].id \in Surviving)
                    => C17_Departed(s, i, draftStates[teams[i].id],
                                    draftStates'[teams[i].id])

C17_DepartureProcessing == [][C17_DepartureStep]_vars

\* C18: when the last connection of a session drops, the teardown is left
\* pending: the session's team membership, side, leader status and the
\* whole DraftState stay as they were, for the session to find them when
\* it attaches again, and no player-disconnected is emitted. (The only
\* identity the server keeps is socket.id, so every connection is the last
\* connection of its session.)
C18_DropStep ==
    \/ connected' = connected
    \/ \A s \in connected :
          Disconnect(s)
            => /\ UNCHANGED <<teams, draftStates>>
               /\ \A e \in DisconnectEmits(s) : e.ev # "player-disconnected"

C18_DropKeepsSessionState == [][C18_DropStep]_vars

\* C19: a completed draft carries the voting sub-state (votingActive,
\* votes, winner) that the game-duration timer, the vote handler and the
\* voting-window timer act on.
C19_VotingState ==
    \A t \in DOMAIN draftStates :
        draftStates[t].turnPhase = "complete"
          => {"votingActive", "votes", "winner"} \subseteq DOMAIN draftStates[t]

\* The members of a side list that have not picked.
C20_Unpicked(ds, side) ==
    {p \in Range(SidePlayers(ds, side)) : ~Includes(ds.playersPicked, p)}

\* Pick phase, every member of the side whose turn it is has picked, and
\* the other side has a member who has not.
C20_Stuck(ds) ==
    /\ ds.turnPhase = "pick"
    /\ C20_Unpicked(ds, ds.currentTurn) = {}
    /\ C20_Unpicked(ds, OtherSide(ds.currentTurn)) # {}

\* C20: in a state where the turn names a side whose members have all
\* picked while the other side has a member who has not, no pick is
\* accepted: no step changes picks, playersPicked or the turn. (That such a
\* state is reachable is C20_Witness.)
C20_StuckStep ==
    \A t \in Surviving :
        C20_Stuck(draftStates[t])
          => /\ draftStates'[t].picks = draftStates[t].picks
             /\ draftStates'[t].playersPicked = draftStates[t].playersPicked
             /\ draftStates'[t].currentTurn = draftStates[t].currentTurn
             /\ draftStates'[t].turnNumber = draftStates[t].turnNumber

C20_NoPickWhenTurnSideExhausted == [][C20_StuckStep]_vars

\* The stuck state, reached after at least one accepted pick, with the
\* un-picked member of the other side still connected.
C20_Witness ==
    \E t \in DOMAIN draftStates :
        /\ C20_Stuck(draftStates[t])
        /\ Len(draftStates[t].picks) > 0
        /\ C20_Unpicked(draftStates[t], OtherSide(draftStates[t].currentTurn))
              \cap connected # {}

\* C21: every session on a side list or in playerSides of a DraftState is
\* a member of that DraftState's team.
C21_SidePlayersAreMembers ==
    \A i \in DOMAIN teams :
        teams[i].id \in DOMAIN draftStates
          => LET ds == draftStates[teams[i].id] IN
             /\ Range(ds.bluePlayers) \subseteq teams[i].members
             /\ Range(ds.redPlayers) \subseteq teams[i].members
             /\ DOMAIN ds.playerSides \subseteq teams[i].members

\* C21 (consequence): a session that has disconnected is on no side list
\* and in no playerSides.
C21_DepartedAreCleared ==
    \A t \in DOMAIN draftStates :
        LET ds == draftStates[t] IN
        /\ Range(ds.bluePlayers) \subseteq connected
        /\ Range(ds.redPlayers) \subseteq connected
        /\ DOMAIN ds.playerSides \subseteq connected

C21_SideListsWithinTeam ==
    /\ C21_SidePlayersAreMembers
    /\ C21_DepartedAreCleared

\* C22: a step that appends an entry to picks records as its side the side
\* the picker has in playerSides at that moment, which is also currentTurn
\* at that moment, whatever side the request names.
C22_PickStep ==
    \A t \in Surviving :
        LET ds == draftStates[t]
            new == draftStates'[t]
        IN new.picks # ds.picks
             => /\ Len(new.picks) = Len(ds.picks) + 1
                /\ LET p == new.picks[Len(new.picks)] IN
                   /\ p.pickerId \in DOMAIN ds.playerSides
                   /\ p.team = ds.playerSides[p.pickerId]
                   /\ p.team = ds.currentTurn

C22_PickRecordsPickerSide == [][C22_PickStep]_vars

\* C23: with no disconnect once a draft has started and with clients that
\* keep banning and picking, a team in the ban phase eventually reaches
\* complete, and a complete draft has exactly 6 bans and one pick by each
\* member of the two side lists.
C23_CompleteAfterAll(ds) ==
    ds.turnPhase = "complete"
      => /\ Len(ds.bans) = 2 * BansPerLeader
         /\ Len(ds.picks) = TotalPlayers(ds)
         /\ \A p \in Range(ds.bluePlayers) \cup Range(ds.redPlayers) :
               Cardinality({k \in DOMAIN ds.picks : ds.picks[k].pickerId = p}) = 1

C23_DraftTerminates ==
    /\ [](\A t \in DOMAIN draftStates : C23_CompleteAfterAll(draftStates[t]))
    /\ \A t \in TeamIds :
          (t \in DOMAIN draftStates /\ draftStates[t].turnPhase = "ban")
            ~> (t \in DOMAIN draftStates /\ draftStates[t].turnPhase = "complete")

====
